---- MODULE Spec2Model ----
(***************************************************************************)
(* Model of src/main.js: the asynchronous startup (startApp), the video    *)
(* element as seen by the page, and the per-frame loop (animate) with the  *)
(* control point tracker and the particle field step.                      *)
(*                                                                         *)
(* JavaScript numbers are modelled as fixed-point integers in units of     *)
(* 1/ONE (three decimals, enough for the finest constant, 0.005), every    *)
(* multiplication and division rounded to the nearest unit, plus the one   *)
(* non-finite value the program can produce, NaN (0/0).  NaN propagates    *)
(* through arithmetic and makes every comparison false, as in IEEE 754.    *)
(***************************************************************************)
EXTENDS Integers, Sequences, FiniteSets, TLC

\* ------------------------------------------------------------ bounds
MaxFrames == 3          \* loop iterations explored
MaxTime == 1            \* video presentation timestamps 0..MaxTime
particleCount == 2      \* particles explored (5000 in the program)

\* ------------------------------------------------------------ numbers
ONE == 1000
NaN == -1000000000

IsNaN(a) == a = NaN
Finite(a) == a # NaN

\* n / d for d > 0, rounded to the nearest integer, halves away from zero
Round(n, d) == IF n >= 0 THEN (2 * n + d) \div (2 * d)
                         ELSE -((2 * (-n) + d) \div (2 * d))

Add(a, b) == IF IsNaN(a) \/ IsNaN(b) THEN NaN ELSE a + b
Sub(a, b) == IF IsNaN(a) \/ IsNaN(b) THEN NaN ELSE a - b
Mul(a, b) == IF IsNaN(a) \/ IsNaN(b) THEN NaN ELSE Round(a * b, ONE)
\* a / b.  The only division by zero the program performs is 0 / 0: dist is
\* zero only when dx, dy and dz are all zero.
Div(a, b) == IF IsNaN(a) \/ IsNaN(b) THEN NaN
             ELSE IF b = 0 THEN NaN
             ELSE IF b > 0 THEN Round(a * ONE, b)
             ELSE Round(-(a * ONE), -b)
Lt(a, b) == Finite(a) /\ Finite(b) /\ a < b

\* floor of the square root of n >= 0, by bisection on lo^2 <= n < hi^2
RECURSIVE ISqrt(_, _, _)
ISqrt(n, lo, hi) ==
    IF hi - lo <= 1 THEN lo
    ELSE LET mid == (lo + hi) \div 2
         IN IF mid * mid <= n THEN ISqrt(n, mid, hi) ELSE ISqrt(n, lo, mid)

\* Math.sqrt, rounded to the nearest unit
Sqrt(n) == LET r == ISqrt(n, 0, 46340)
           IN IF n - r * r > r THEN r + 1 ELSE r

\* Math.sqrt(dx*dx + dy*dy + dz*dz), in units
Norm(dx, dy, dz) ==
    IF IsNaN(dx) \/ IsNaN(dy) \/ IsNaN(dz) THEN NaN
    ELSE Sqrt(dx * dx + dy * dy + dz * dz)

\* ------------------------------------------------------------ state
VARIABLES
    pc,             \* where startApp stands: the await it is suspended at
    alerted,        \* alert("Camera failed to start: ...") was shown
    srcObject,      \* videoElement.srcObject is the camera stream
    handLandmarker, \* TRUE once handLandmarker is assigned (truthy)
    readyState,     \* videoElement.readyState, 0..4
    currentTime,    \* videoElement.currentTime
    lastVideoTime,  \* -1, or the timestamp of the last detection
    handMarker,     \* handMarker.position, <<x, y, z>>
    pPositions,     \* particle i -> <<x, y, z>>
    pVelocities,    \* particle i -> <<vx, vy, vz>>
    loopStarted,    \* animate() has run and re-registered itself
    frame,          \* loop iterations so far
    obs             \* what the last loop iteration read and did

vars == <<pc, alerted, srcObject, handLandmarker, readyState, currentTime,
          lastVideoTime, handMarker, pPositions, pVelocities, loopStarted,
          frame, obs>>

Particles == 0 .. (particleCount - 1)

\* initial particle positions, each inside the cube (Math.random() - 0.5) * 20
InitPositions == { <<0, 0, 0>>, <<3000, -1000, 2000>> }

\* results.landmarks of one detection: <<>> (no hand) or <<tip>>, tip the
\* fingertip landmark [x, y] of the first hand, normalised to [0, 1]
Detections == { <<>>,
                << [x |-> 0, y |-> 0] >>,
                << [x |-> 500, y |-> 500] >>,
                << [x |-> 1000, y |-> 250] >> }

NoObs == [ran |-> FALSE, time |-> 0, hl |-> FALSE, rs |-> 0, alerted |-> FALSE,
          detect |-> FALSE, consumed |-> FALSE, tip |-> [x |-> 0, y |-> 0],
          steps |-> 0, cp |-> <<0, 0, 0>>]

Init ==
    /\ pc = "getUserMedia"
    /\ alerted = FALSE
    /\ srcObject = FALSE
    /\ handLandmarker = FALSE
    /\ readyState = 0
    /\ currentTime = 0
    /\ lastVideoTime = -1
    /\ handMarker = <<0, 0, 0>>
    /\ pPositions \in [Particles -> InitPositions]
    /\ pVelocities = [i \in Particles |-> <<0, 0, 0>>]
    /\ loopStarted = FALSE
    /\ frame = 0
    /\ obs = NoObs

\* ------------------------------------------------------------ constants
HAVE_CURRENT_DATA == 2  \* readyState >= 2
HALF == 500             \* 0.5
SpanX == 30000          \* 30
SpanY == 20000          \* 20
Smoothing == 200        \* 0.2
Radius == 6000          \* 6
Gain == 500             \* 0.5
Damping == 950          \* 0.95
Spring == 5             \* 0.005

\* ------------------------------------------------------------ animate, parts
\* if (handLandmarker && videoElement.readyState >= 2)
SimReadyEither(hl, rs) == hl \/ rs >= HAVE_CURRENT_DATA
SimReadyVideoOnly(hl, rs) == rs >= HAVE_CURRENT_DATA
SimReadyDetectorOnly(hl, rs) == hl
SimReady(hl, rs) == hl /\ rs >= HAVE_CURRENT_DATA

\* if (videoElement.currentTime !== lastVideoTime)
NeedDetectAlways(t, last) == TRUE
NeedDetect(t, last) == t # last

\* A. FIND HAND, after detectForVideo returned `landmarks`: the new
\* handMarker.position
MoveMarkerSnap(hm, landmarks) ==
    IF Len(landmarks) > 0
    THEN << Mul(Sub(HALF, landmarks[1].x), SpanX),
            Mul(Sub(HALF, landmarks[1].y), SpanY), 0 >>
    ELSE hm
MoveMarkerDecay(hm, landmarks) ==
    LET targetX == IF Len(landmarks) > 0
                   THEN Mul(Sub(HALF, landmarks[1].x), SpanX) ELSE 0
        targetY == IF Len(landmarks) > 0
                   THEN Mul(Sub(HALF, landmarks[1].y), SpanY) ELSE 0
    IN << Add(hm[1], Mul(Sub(targetX, hm[1]), Smoothing)),
          Add(hm[2], Mul(Sub(targetY, hm[2]), Smoothing)), 0 >>
MoveMarker(hm, landmarks) ==
    IF Len(landmarks) > 0
    THEN LET tip == landmarks[1]
             targetX == Mul(Sub(HALF, tip.x), SpanX)
             targetY == Mul(Sub(HALF, tip.y), SpanY)
         IN << Add(hm[1], Mul(Sub(targetX, hm[1]), Smoothing)),
               Add(hm[2], Mul(Sub(targetY, hm[2]), Smoothing)),
               0 >>
    ELSE hm

\* B. MOVE PARTICLES, the loop body for one particle at position p with
\* velocity v, the marker at cp: the particle's new position and velocity
StepParticleDampFirst(p, v, cp) ==
    LET dx == Sub(p[1], cp[1])
        dy == Sub(p[2], cp[2])
        dz == Sub(p[3], cp[3])
        dist == Norm(dx, dy, dz)
        force == Div(Sub(Radius, dist), Radius)
        v1 == [k \in 1..3 |-> Sub(Mul(v[k], Damping), Mul(p[k], Spring))]
        v2 == IF Lt(dist, Radius)
              THEN << Add(v1[1], Mul(Mul(Div(dx, dist), force), Gain)),
                      Add(v1[2], Mul(Mul(Div(dy, dist), force), Gain)),
                      Add(v1[3], Mul(Mul(Div(dz, dist), force), Gain)) >>
              ELSE << v1[1], v1[2], v1[3] >>
    IN [pos |-> << Add(p[1], v2[1]), Add(p[2], v2[2]), Add(p[3], v2[3]) >>,
        vel |-> v2]
StepParticle(p, v, cp) ==
    LET dx == Sub(p[1], cp[1])
        dy == Sub(p[2], cp[2])
        dz == Sub(p[3], cp[3])
        dist == Norm(dx, dy, dz)
        force == Div(Sub(Radius, dist), Radius)
        v1 == IF Lt(dist, Radius)
              THEN << Add(v[1], Mul(Mul(Div(dx, dist), force), Gain)),
                      Add(v[2], Mul(Mul(Div(dy, dist), force), Gain)),
                      Add(v[3], Mul(Mul(Div(dz, dist), force), Gain)) >>
              ELSE v
        v2 == << Sub(Mul(v1[1], Damping), Mul(p[1], Spring)),
                 Sub(Mul(v1[2], Damping), Mul(p[2], Spring)),
                 Sub(Mul(v1[3], Damping), Mul(p[3], Spring)) >>
    IN [pos |-> << Add(p[1], v2[1]), Add(p[2], v2[2]), Add(p[3], v2[3]) >>,
        vel |-> v2]

\* The body of animate() between controls.update() and renderer.render():
\* the variables it leaves behind, and what it did (detect: detectForVideo
\* was called; consumed: a landmark fed the marker; steps: runs of the
\* particle loop; cp: the marker position the particle loop read).
animateBodyStepFirst(hl, rs, t, last, hm, pos, vel, landmarks) ==
    IF SimReady(hl, rs)
    THEN LET detect == NeedDetect(t, last)
             hm2 == IF detect THEN MoveMarker(hm, landmarks) ELSE hm
             stepped == [i \in Particles |-> StepParticle(pos[i], vel[i], hm)]
         IN [lastVideoTime |-> IF detect THEN t ELSE last,
             handMarker |-> hm2,
             pos |-> [i \in Particles |-> stepped[i].pos],
             vel |-> [i \in Particles |-> stepped[i].vel],
             detect |-> detect,
             consumed |-> detect /\ Len(landmarks) > 0,
             steps |-> 1,
             cp |-> hm]
    ELSE [lastVideoTime |-> last, handMarker |-> hm, pos |-> pos, vel |-> vel,
          detect |-> FALSE, consumed |-> FALSE, steps |-> 0, cp |-> hm]
animateBody(hl, rs, t, last, hm, pos, vel, landmarks) ==
    IF SimReady(hl, rs)
    THEN LET detect == NeedDetect(t, last)
             hm2 == IF detect THEN MoveMarker(hm, landmarks) ELSE hm
             stepped == [i \in Particles |-> StepParticle(pos[i], vel[i], hm2)]
         IN [lastVideoTime |-> IF detect THEN t ELSE last,
             handMarker |-> hm2,
             pos |-> [i \in Particles |-> stepped[i].pos],
             vel |-> [i \in Particles |-> stepped[i].vel],
             detect |-> detect,
             consumed |-> detect /\ Len(landmarks) > 0,
             steps |-> 1,
             cp |-> hm2]
    ELSE [lastVideoTime |-> last, handMarker |-> hm, pos |-> pos, vel |-> vel,
          detect |-> FALSE, consumed |-> FALSE, steps |-> 0, cp |-> hm]

\* ------------------------------------------------------------ actions
\* One call of animate(): requestAnimationFrame(animate) re-registers it, the
\* body runs, the scene is rendered.  The first call is the script's own
\* (line 131), the later ones the browser's, one per display refresh.
animate ==
    /\ frame < MaxFrames
    /\ \E landmarks \in Detections :
       \E r \in { animateBody(handLandmarker, readyState, currentTime,
                              lastVideoTime, handMarker, pPositions,
                              pVelocities, landmarks) } :
            /\ lastVideoTime' = r.lastVideoTime
            /\ handMarker' = r.handMarker
            /\ pPositions' = r.pos
            /\ pVelocities' = r.vel
            /\ obs' = [ran |-> TRUE, time |-> currentTime,
                       hl |-> handLandmarker, rs |-> readyState,
                       alerted |-> alerted,
                       detect |-> r.detect, consumed |-> r.consumed,
                       tip |-> IF r.consumed THEN landmarks[1] ELSE NoObs.tip,
                       steps |-> r.steps, cp |-> r.cp]
    /\ loopStarted' = TRUE
    /\ frame' = frame + 1
    /\ UNCHANGED <<pc, alerted, srcObject, handLandmarker, readyState,
                   currentTime>>

\* startApp() runs to its first await when the script calls it; each
\* continuation runs after the script has finished, so after the first
\* animate().

\* getUserMedia resolves: the stream is attached and played, startApp goes on
\* to await FilesetResolver.forVisionTasks
getUserMediaResolved ==
    /\ pc = "getUserMedia"
    /\ loopStarted
    /\ srcObject' = TRUE
    /\ pc' = "forVisionTasks"
    /\ UNCHANGED <<alerted, handLandmarker, readyState, currentTime,
                   lastVideoTime, handMarker, pPositions, pVelocities,
                   loopStarted, frame, obs>>

\* getUserMedia rejects: catch (err) { alert(...); return; }
getUserMediaRejectedNoReturn ==
    /\ pc = "getUserMedia"
    /\ loopStarted
    /\ alerted' = TRUE
    /\ pc' = "forVisionTasks"
    /\ UNCHANGED <<srcObject, handLandmarker, readyState, currentTime,
                   lastVideoTime, handMarker, pPositions, pVelocities,
                   loopStarted, frame, obs>>
getUserMediaRejected ==
    /\ pc = "getUserMedia"
    /\ loopStarted
    /\ alerted' = TRUE
    /\ pc' = "returned"
    /\ UNCHANGED <<srcObject, handLandmarker, readyState, currentTime,
                   lastVideoTime, handMarker, pPositions, pVelocities,
                   loopStarted, frame, obs>>

\* FilesetResolver.forVisionTasks resolves: startApp goes on to await
\* HandLandmarker.createFromOptions
forVisionTasksResolved ==
    /\ pc = "forVisionTasks"
    /\ pc' = "createFromOptions"
    /\ UNCHANGED <<alerted, srcObject, handLandmarker, readyState, currentTime,
                   lastVideoTime, handMarker, pPositions, pVelocities,
                   loopStarted, frame, obs>>

\* HandLandmarker.createFromOptions resolves: handLandmarker is assigned
createFromOptionsResolved ==
    /\ pc = "createFromOptions"
    /\ handLandmarker' = TRUE
    /\ pc' = "loaded"
    /\ UNCHANGED <<alerted, srcObject, readyState, currentTime,
                   lastVideoTime, handMarker, pPositions, pVelocities,
                   loopStarted, frame, obs>>

\* either model-loading await rejects: no try/catch around them, startApp's
\* promise rejects and nothing is assigned
modelLoadRejected ==
    /\ pc \in {"forVisionTasks", "createFromOptions"}
    /\ pc' = "rejected"
    /\ UNCHANGED <<alerted, srcObject, handLandmarker, readyState, currentTime,
                   lastVideoTime, handMarker, pPositions, pVelocities,
                   loopStarted, frame, obs>>

\* the video element, once it has a stream: its readyState moves between
\* HAVE_NOTHING (0) and HAVE_ENOUGH_DATA (4) as data arrives or stalls
videoReadyState ==
    /\ srcObject
    /\ \E rs \in 0..4 : rs # readyState /\ readyState' = rs
    /\ UNCHANGED <<pc, alerted, srcObject, handLandmarker, currentTime,
                   lastVideoTime, handMarker, pPositions, pVelocities,
                   loopStarted, frame, obs>>

\* the playing stream presents a new frame
videoTimeUpdate ==
    /\ srcObject
    /\ currentTime < MaxTime
    /\ currentTime' = currentTime + 1
    /\ UNCHANGED <<pc, alerted, srcObject, handLandmarker, readyState,
                   lastVideoTime, handMarker, pPositions, pVelocities,
                   loopStarted, frame, obs>>

Next ==
    \/ animate
    \/ getUserMediaResolved
    \/ getUserMediaRejected
    \/ forVisionTasksResolved
    \/ createFromOptionsResolved
    \/ modelLoadRejected
    \/ videoReadyState
    \/ videoTimeUpdate

Spec == Init /\ [][Next]_vars

\* ------------------------------------------------------------ properties
\* a step of animate
Iteration == frame' = frame + 1

Abs(n) == IF n < 0 THEN -n ELSE n

AllFinite ==
    \A i \in Particles : \A k \in 1..3 :
        Finite(pPositions[i][k]) /\ Finite(pVelocities[i][k])

\* C1: an iteration that finds the camera stream attached with data
\* (readyState >= 2) and handLandmarker unset changes no particle position,
\* no particle velocity and not the marker position.
C1_SimulationGated ==
    [][(Iteration /\ srcObject /\ readyState >= HAVE_CURRENT_DATA
          /\ ~handLandmarker)
       => /\ pPositions' = pPositions
          /\ pVelocities' = pVelocities
          /\ handMarker' = handMarker]_vars

\* a second iteration in a row has run with video data and no detector
C1_Witness ==
    /\ frame >= 2
    /\ obs.ran /\ ~obs.hl /\ obs.rs >= HAVE_CURRENT_DATA
    /\ srcObject /\ ~handLandmarker

\* C2: of two iterations in a row that read the same currentTime at most one
\* calls detectForVideo; no iteration whose currentTime equals lastVideoTime
\* calls it; and an iteration that calls it leaves lastVideoTime at its
\* currentTime, hand or no hand.
C2_DetectionDeduplicated ==
    [][Iteration
       => /\ (obs.ran /\ obs.time = currentTime)
                => ~(obs.detect /\ obs'.detect)
          /\ currentTime = lastVideoTime => ~obs'.detect
          /\ obs'.detect => lastVideoTime' = currentTime]_vars

\* an active iteration has skipped detection on the timestamp already seen
C2_Witness ==
    /\ frame >= 2
    /\ obs.ran /\ obs.steps = 1 /\ ~obs.detect
    /\ obs.time = lastVideoTime

\* C3: detectForVideo is called only in iterations that found handLandmarker
\* assigned, whatever startApp has done or failed to do.
C3_NoDetectBeforeReady ==
    obs.detect => (obs.hl /\ handLandmarker /\ pc = "loaded")

\* the detector has been called
C3_Witness == obs.ran /\ obs.detect /\ obs.hl

\* C4 as stated: after a failed getUserMedia the error is shown, the detector
\* is never loaded and the frame loop is not started.
C4_LoopNotStarted ==
    pc = "returned" => (alerted /\ ~handLandmarker /\ ~loopStarted)

\* C4 amended: a failed getUserMedia is shown to the user and ends startApp,
\* so handLandmarker stays unset for good and no stream is attached; the frame
\* loop runs all the same, and each of its iterations is idle: no detection,
\* no marker move, no particle step.
C4_CameraFailureIdles ==
    /\ [](alerted <=> pc = "returned")
    /\ [](alerted => (~handLandmarker /\ ~srcObject))
    /\ [][alerted
          => /\ alerted'
             /\ (Iteration => (~obs'.detect /\ obs'.steps = 0))
             /\ UNCHANGED <<handMarker, pPositions, pVelocities,
                            lastVideoTime>>]_vars

\* the loop has iterated after the alert
C4_Witness == alerted /\ obs.ran /\ obs.alerted /\ frame >= 2

\* C5: an iteration that finds handLandmarker assigned and readyState >= 2
\* runs the particle loop once, over every particle, with the marker position
\* the iteration leaves behind (the marker moves before the particles do).
C5_ActiveStepsOnce ==
    [][(Iteration /\ handLandmarker /\ readyState >= HAVE_CURRENT_DATA)
       => /\ obs'.steps = 1
          /\ obs'.cp = handMarker'
          /\ \A i \in Particles :
               /\ pPositions'[i] =
                    StepParticle(pPositions[i], pVelocities[i], handMarker').pos
               /\ pVelocities'[i] =
                    StepParticle(pPositions[i], pVelocities[i], handMarker').vel
      ]_vars

\* the particles stepped in an iteration that skipped detection, the marker
\* away from the origin
C5_Witness ==
    /\ obs.ran /\ obs.steps = 1 /\ ~obs.detect
    /\ handMarker # <<0, 0, 0>>

\* C6 as stated: every iteration that finds handLandmarker assigned runs the
\* particle loop once, video data or not.
C6_StepsOnceReady == (obs.ran /\ obs.hl) => obs.steps = 1

\* C6 amended: an iteration that finds handLandmarker assigned runs the
\* particle loop once when readyState >= 2 and not at all when readyState < 2,
\* whether or not a detection ran in it.
C6_StepsIffVideoData ==
    (obs.ran /\ obs.hl)
        => obs.steps = (IF obs.rs >= HAVE_CURRENT_DATA THEN 1 ELSE 0)

\* an iteration found the detector ready and the video without data
C6_Witness ==
    obs.ran /\ obs.hl /\ obs.rs < HAVE_CURRENT_DATA /\ obs.steps = 0

\* C7: every particle's position and velocity components are finite.
C7_FinitePositions == AllFinite

\* C8: an iteration that consumes the fingertip landmark (x, y) moves the
\* marker's x and y by 0.2 of (target - current), to the nearest unit, with
\* target = ((0.5 - x) * 30, (0.5 - y) * 20, 0), and sets z to 0; from the
\* origin, (0.5, 0.5) leaves it there and (0, 0) takes it to (3, 2, 0).
C8_TrackerUpdate ==
    [][(Iteration /\ obs'.consumed)
       => LET tx == (HALF - obs'.tip.x) * 30
              ty == (HALF - obs'.tip.y) * 20
          IN /\ Abs(5 * (handMarker'[1] - handMarker[1])
                      - (tx - handMarker[1])) <= 2
             /\ Abs(5 * (handMarker'[2] - handMarker[2])
                      - (ty - handMarker[2])) <= 2
             /\ handMarker'[3] = 0
             /\ (handMarker = <<0, 0, 0>> /\ obs'.tip = [x |-> HALF, y |-> HALF])
                    => handMarker' = <<0, 0, 0>>
             /\ (handMarker = <<0, 0, 0>> /\ obs'.tip = [x |-> 0, y |-> 0])
                    => (tx = 15 * ONE /\ ty = 10 * ONE
                        /\ handMarker' = <<3 * ONE, 2 * ONE, 0>>)]_vars

\* the landmark (0, 0) has taken the marker from the origin to (3, 2, 0)
C8_Witness ==
    /\ obs.ran /\ obs.consumed /\ obs.tip = [x |-> 0, y |-> 0]
    /\ handMarker = <<3 * ONE, 2 * ONE, 0>>

\* C9: an iteration that consumes no landmark leaves the marker position as
\* it was, and the marker's z is 0 in every state.
C9_ControlPointFreeze ==
    /\ [][(Iteration /\ ~obs'.consumed) => handMarker' = handMarker]_vars
    /\ [](handMarker[3] = 0)

\* a detection found no hand, the marker away from the origin
C9_Witness ==
    /\ obs.ran /\ obs.detect /\ ~obs.consumed
    /\ handMarker # <<0, 0, 0>>

\* C10: in a particle step, with d = position - marker and dist = |d|, the
\* new velocity is 0.95 * (velocity + impulse) - 0.005 * position, where
\* impulse = (d / dist) * ((6 - dist) / 6) * 0.5 when dist < 6 and none
\* otherwise, and the new position is position + new velocity; each particle
\* from its own position and velocity and the marker alone.
ImpulseOf(p, c, k) ==
    LET dist == Norm(Sub(p[1], c[1]), Sub(p[2], c[2]), Sub(p[3], c[3]))
    IN IF Lt(dist, Radius)
       THEN Mul(Mul(Div(Sub(p[k], c[k]), dist),
                    Div(Sub(Radius, dist), Radius)), Gain)
       ELSE 0

C10_StepOrder ==
    [][(Iteration /\ obs'.steps = 1)
       => \A i \in Particles : \A k \in 1..3 :
            /\ pVelocities'[i][k] =
                 Sub(Mul(Add(pVelocities[i][k],
                             ImpulseOf(pPositions[i], handMarker', k)),
                         Damping),
                     Mul(pPositions[i][k], Spring))
            /\ pPositions'[i][k] =
                 Add(pPositions[i][k], pVelocities'[i][k])]_vars

\* after three iterations a particle step has left a particle, its state
\* finite, inside the marker's radius with a non-zero impulse due
C10_Witness ==
    /\ frame >= 3 /\ obs.ran /\ obs.steps = 1
    /\ \E i \in Particles :
         /\ \A k \in 1..3 : Finite(pPositions[i][k]) /\ Finite(pVelocities[i][k])
         /\ \E k \in 1..3 : ImpulseOf(pPositions[i], handMarker, k) # 0

====
